---- MODULE Spec2Model ----
(***************************************************************************)
(* A model of the CodeExplainer notebooks: a retrieval-augmented           *)
(* generation pipeline over a source tree.  The notebooks are straight     *)
(* line cell sequences that call the text splitter, the embedding model,   *)
(* the FAISS vector store, the retriever, the prompt template and the      *)
(* Ollama model; every operator below models the call the notebook makes,  *)
(* with the parameters the notebook passes.                                *)
(*                                                                         *)
(* Texts are sequences of characters (one-character strings).  A chunk     *)
(* carries, next to its text, the positions lo..hi of the document it was  *)
(* cut from; the positions are history information used only to state     *)
(* properties, the program does not store them.                            *)
(***************************************************************************)
EXTENDS Integers, Sequences, FiniteSets, TLC

VARIABLES
    nb,             \* the notebook that is run: its name, "" between runs
    runs,           \* how many notebook runs were started
    loader,         \* history: how many files the tree holds, how many the loader
                    \* had read when load() returned or raised, which file raised
    documents,      \* loader.load(): the loaded Documents
    chunk_size,     \* code_splitter's chunk_size
    chunk_overlap,  \* code_splitter's chunk_overlap
    doc_chunks,     \* code_splitter.split_documents(documents)
    model_weights,  \* the pretrained embedding models: model name -> text key -> vector
    log,            \* what the cells of the run have printed or warned, in order
    callers,        \* callers of the retriever at work side by side: for each, how
                    \* far its retriever.invoke is and what it holds
    vector_db,      \* the FAISS store in memory (None before it is built or loaded)
    disk,           \* the file system: directory path -> the files save_local wrote
    saved_db,       \* history: the store object the last save_local was called on
    search_k,       \* the retriever's search_kwargs["k"]
    question,       \* the text the retriever or the chain is invoked with
    docs_retrieved, \* what the sample retrieval returned
    branch,         \* rag_chain: how far the two parallel input branches are
    chain_docs,     \* rag_chain: what the retriever returned
    context,        \* rag_chain: the output of format_docs
    passthrough,    \* rag_chain: the output of RunnablePassthrough()
    retriever_input, \* rag_chain: what the retriever was invoked with
    prompt_value,   \* rag_chain: the output of the prompt template
    completion,     \* rag_chain: the output of the model
    answer,         \* rag_chain: the output of the parser, the chain's result
    trace,          \* history: the stages of the chain that ran, in order
    llm_calls,      \* history: requests sent to the model for the current query
    error,          \* the exception that ended the run ("" when none)
    pc              \* the cell the notebook run is at

splitVars == <<loader, documents, chunk_size, chunk_overlap>>
storeVars == <<vector_db, disk, saved_db>>
chainVars == <<branch, chain_docs, context, passthrough, retriever_input, prompt_value,
               completion, answer, trace, llm_calls>>
vars == <<nb, runs, loader, documents, chunk_size, chunk_overlap, doc_chunks, model_weights,
          log, callers, vector_db, disk, saved_db, search_k, question, docs_retrieved,
          branch, chain_docs, context, passthrough, retriever_input, prompt_value, completion,
          answer, trace, llm_calls, error, pc>>

(***************************************************************************)
(* Bounds of the model.                                                    *)
(***************************************************************************)
MaxDocTokens == 3
MaxChunkSize == 4
MaxEntries == 12
MaxDocs == 3
MaxRuns == 2

(***************************************************************************)
(* Characters and strings.                                                 *)
(***************************************************************************)
NL == "\n"
SP == " "
TAB == "\t"

\* the characters str.strip() removes
Whitespace == {SP, NL, TAB}

\* Language.PYTHON's separators, in the order the splitter tries them:
\* class and def boundaries first, then blank lines, lines, words, characters
SepClass == <<NL, "c", "l", "a", "s", "s", SP>>
SepDef == <<NL, "d", "e", "f", SP>>
SepTabDef == <<NL, TAB, "d", "e", "f", SP>>
\* mutant: a separator list that does not end with the empty separator
PythonSeparatorsNoEmpty == <<SepClass, SepDef, SepTabDef, <<NL, NL>>, <<NL>>, <<SP>>>>

PythonSeparators == <<SepClass, SepDef, SepTabDef, <<NL, NL>>, <<NL>>, <<SP>>, <<>>>>

\* the length function of the splitter: len()
PLen(p) == p[2] - p[1] + 1

\* text[i:] starts with sep, inside the piece that ends at e
MatchesAt(text, i, e, sep) ==
    /\ i + Len(sep) - 1 <= e
    /\ SubSeq(text, i, i + Len(sep) - 1) = sep

\* re.search(separator, text) on the piece s..e
ReSearch(text, s, e, sep) == \E i \in s..e : MatchesAt(text, i, e, sep)

\* re.split("(sep)", text): the pieces between the leftmost non-overlapping
\* matches alternating with the matched separators, as position pairs
\* (a pair <<i, i-1>> is the empty string)
RECURSIVE ReSplit(_, _, _, _, _)
ReSplit(text, from, i, e, sep) ==
    LET hits == {j \in i..e : MatchesAt(text, j, e, sep)}
    IN  IF hits = {} THEN << <<from, e>> >>
        ELSE LET m == CHOOSE j \in hits : \A h \in hits : j <= h
             IN  << <<from, m - 1>>, <<m, m + Len(sep) - 1>> >>
                 \o ReSplit(text, m + Len(sep), m + Len(sep), e, sep)

\* [s for s in splits if s != ""]
RECURSIVE NonEmpty(_)
NonEmpty(ps) ==
    IF ps = <<>> THEN <<>>
    ELSE IF PLen(Head(ps)) > 0 THEN <<Head(ps)>> \o NonEmpty(Tail(ps))
    ELSE NonEmpty(Tail(ps))

\* mutant: keep_separator=False, the matched separators are dropped
SplitTextDropSeparator(text, s, e, sep) ==
    IF sep = <<>>
    THEN [k \in 1..(e - s + 1) |-> <<s + k - 1, s + k - 1>>]
    ELSE LET parts == ReSplit(text, s, s, e, sep)
             n == (Len(parts) + 1) \div 2
         IN  NonEmpty([k \in 1..n |-> parts[2 * k - 1]])

\* _split_text_with_regex(text, separator, keep_separator=True): every
\* separator is kept at the start of the piece that follows it
SplitTextWithRegex(text, s, e, sep) ==
    IF sep = <<>>
    THEN [k \in 1..(e - s + 1) |-> <<s + k - 1, s + k - 1>>]
    ELSE LET parts == ReSplit(text, s, s, e, sep)
             n == (Len(parts) - 1) \div 2
             joined == [k \in 1..n |-> <<parts[2 * k][1], parts[2 * k + 1][2]>>]
         IN  NonEmpty(<<parts[1]>> \o joined)

\* text.strip() of the piece lo..hi
RECURSIVE LStrip(_, _, _)
LStrip(text, lo, hi) ==
    IF lo <= hi /\ text[lo] \in Whitespace THEN LStrip(text, lo + 1, hi) ELSE lo

RECURSIVE RStrip(_, _, _)
RStrip(text, lo, hi) ==
    IF lo <= hi /\ text[hi] \in Whitespace THEN RStrip(text, lo, hi - 1) ELSE hi

Strip(text, lo, hi) == <<LStrip(text, lo, hi), RStrip(text, LStrip(text, lo, hi), hi)>>

\* _join_docs(docs, separator=""): the joined pieces stripped, nothing when
\* the result is empty (returned as a list of zero or one piece)
JoinDocs(text, current) ==
    IF current = <<>> THEN <<>>
    ELSE LET p == Strip(text, Head(current)[1], current[Len(current)][2])
         IN  IF PLen(p) <= 0 THEN <<>> ELSE <<p>>

\* mutant: the loop only looks at the overlap, not at the room left
RECURSIVE PopWhileOverlapOnly(_, _, _, _, _)
PopWhileOverlapOnly(current, total, len, cs, ov) ==
    IF total > ov
    THEN PopWhileOverlapOnly(Tail(current), total - PLen(Head(current)), len, cs, ov)
    ELSE <<current, total>>

\* mutant: the loop only looks at the room left, not at the overlap
RECURSIVE PopWhileRoomOnly(_, _, _, _, _)
PopWhileRoomOnly(current, total, len, cs, ov) ==
    IF total + len > cs /\ total > 0
    THEN PopWhileRoomOnly(Tail(current), total - PLen(Head(current)), len, cs, ov)
    ELSE <<current, total>>

\* the while loop of _merge_splits: drop pieces from the front of the
\* current chunk until what is left fits the overlap and leaves room
RECURSIVE PopWhile(_, _, _, _, _)
PopWhile(current, total, len, cs, ov) ==
    IF total > ov \/ (total + len > cs /\ total > 0)
    THEN PopWhile(Tail(current), total - PLen(Head(current)), len, cs, ov)
    ELSE <<current, total>>

\* _merge_splits(splits, separator=""): the for loop from split i on
RECURSIVE MergeFrom(_, _, _, _, _, _, _, _)
MergeFrom(text, splits, i, docs, current, total, cs, ov) ==
    IF i > Len(splits) THEN docs \o JoinDocs(text, current)
    ELSE LET d == splits[i]
             len == PLen(d)
             full == total + len > cs
             flushed == IF full /\ current # <<>>
                        THEN docs \o JoinDocs(text, current) ELSE docs
             kept == IF full /\ current # <<>>
                     THEN PopWhile(current, total, len, cs, ov)
                     ELSE <<current, total>>
         IN  MergeFrom(text, splits, i + 1, flushed,
                       Append(kept[1], d), kept[2] + len, cs, ov)

\* mutant: chunks are closed at half the chunk size
MergeSplitsHalf(text, splits, cs, ov) ==
    MergeFrom(text, splits, 1, <<>>, <<>>, 0, cs \div 2, ov)

MergeSplits(text, splits, cs, ov) == MergeFrom(text, splits, 1, <<>>, <<>>, 0, cs, ov)

\* the first separator of the list that is "" or occurs in the text
RECURSIVE PickSeparator(_, _, _, _, _)
PickSeparator(text, s, e, separators, i) ==
    IF i > Len(separators) THEN <<Len(separators), FALSE>>
    ELSE IF separators[i] = <<>> THEN <<i, FALSE>>
    ELSE IF ReSearch(text, s, e, separators[i]) THEN <<i, TRUE>>
    ELSE PickSeparator(text, s, e, separators, i + 1)

\* RecursiveCharacterTextSplitter._split_text(text, separators)
RECURSIVE SplitText(_, _, _, _, _, _)
RECURSIVE SplitLoop(_, _, _, _, _, _, _, _)
SplitLoop(text, splits, i, good, final, newseps, cs, ov) ==
    IF i > Len(splits)
    THEN IF good # <<>> THEN final \o MergeSplits(text, good, cs, ov) ELSE final
    ELSE LET p == splits[i] IN
         IF PLen(p) < cs
         THEN SplitLoop(text, splits, i + 1, Append(good, p), final, newseps, cs, ov)
         ELSE LET merged == IF good # <<>>
                            THEN final \o MergeSplits(text, good, cs, ov) ELSE final
                  more == IF newseps = <<>> THEN <<p>>
                          ELSE SplitText(text, p[1], p[2], newseps, cs, ov)
              IN  SplitLoop(text, splits, i + 1, <<>>, merged \o more, newseps, cs, ov)

SplitText(text, s, e, separators, cs, ov) ==
    LET pick == PickSeparator(text, s, e, separators, 1)
        separator == separators[pick[1]]
        newseps == IF pick[2] THEN SubSeq(separators, pick[1] + 1, Len(separators))
                   ELSE <<>>
        splits == SplitTextWithRegex(text, s, e, separator)
    IN  SplitLoop(text, splits, 1, <<>>, <<>>, newseps, cs, ov)

\* one chunk Document per piece: its text, the metadata of its Document
\* mutant: the chunks of a document come out last first
ChunksOfLastFirst(doc, d, cs, ov) ==
    LET ps == SplitText(doc.page_content, 1, Len(doc.page_content),
                        PythonSeparators, cs, ov)
    IN  [k \in 1..Len(ps) |->
            [page_content |-> SubSeq(doc.page_content, ps[Len(ps) + 1 - k][1],
                                     ps[Len(ps) + 1 - k][2]),
             source |-> doc.source, doc |-> d,
             lo |-> ps[Len(ps) + 1 - k][1], hi |-> ps[Len(ps) + 1 - k][2]]]

ChunksOf(doc, d, cs, ov) ==
    LET ps == SplitText(doc.page_content, 1, Len(doc.page_content),
                        PythonSeparators, cs, ov)
    IN  [k \in 1..Len(ps) |->
            [page_content |-> SubSeq(doc.page_content, ps[k][1], ps[k][2]),
             source |-> doc.source, doc |-> d, lo |-> ps[k][1], hi |-> ps[k][2]]]

\* code_splitter.split_documents(documents)
RECURSIVE SplitDocuments(_, _, _, _)
SplitDocuments(docs, d, cs, ov) ==
    IF d > Len(docs) THEN <<>>
    ELSE ChunksOf(docs[d], d, cs, ov) \o SplitDocuments(docs, d + 1, cs, ov)

(***************************************************************************)
(* The embedding model.  Both sentence-transformers models end with a      *)
(* normalisation layer, so every embedding has the same norm; the model    *)
(* uses the integer points of the circle of radius 5, so that a cosine     *)
(* similarity is a dot product (over 25) and a squared Euclidean distance  *)
(* is exact.  What a pretrained model maps a text to is fixed by its       *)
(* weights, here a table from the first character of the text.             *)
(***************************************************************************)
None == [none |-> TRUE]

L6 == "sentence-transformers/all-MiniLM-L6-v2"
L12 == "sentence-transformers/all-MiniLM-L12-v2"

Vectors == {v \in (-5..5) \X (-5..5) : v[1] * v[1] + v[2] * v[2] = 25}

TextKey(text) == IF text = <<>> THEN "" ELSE text[1]

\* the number of tokens a model reads of a text (max_seq_length: 256 in the
\* notebook's output), scaled to the texts of the model; a token is one
\* element of the text
MaxSeqLength == 1

\* the tokenizer of the model called with truncation: what is past
\* max_seq_length is cut off
Truncate(text) ==
    IF Len(text) > MaxSeqLength THEN SubSeq(text, 1, MaxSeqLength) ELSE text

\* texts = list(map(lambda x: x.replace("\n", " "), texts)) of
\* HuggingFaceEmbeddings.embed_documents, which embed_query goes through
ReplaceNewlines(text) == [i \in 1..Len(text) |-> IF text[i] = NL THEN SP ELSE text[i]]

\* embeddings.embed_query(text) / embed_documents([text]) of model m: the
\* model sees the text with its line breaks replaced, truncated
Embed(m, text) == model_weights[m][TextKey(Truncate(ReplaceNewlines(text)))]

\* what embedding the texts logs: the model truncates without a message
EmbedWarnings(m, texts) == <<>>

\* mutant: the documents are embedded with another model than the queries
EmbedDocumentsOther(m, texts) ==
    [i \in 1..Len(texts) |-> Embed(IF m = L6 THEN L12 ELSE L6, texts[i])]

EmbedDocuments(m, texts) == [i \in 1..Len(texts) |-> Embed(m, texts[i])]

(***************************************************************************)
(* The FAISS vector store.                                                 *)
(***************************************************************************)
Dot(a, b) == a[1] * b[1] + a[2] * b[2]

\* IndexFlatL2's metric: the squared Euclidean distance
L2(a, b) == (a[1] - b[1]) * (a[1] - b[1]) + (a[2] - b[2]) * (a[2] - b[2])

\* mutant: every document is added twice
FromDocumentsTwice(docs, m) ==
    [embeddings |-> m,
     index |-> EmbedDocuments(m, [i \in 1..Len(docs) |-> docs[i].page_content])
                   \o EmbedDocuments(m, [i \in 1..Len(docs) |-> docs[i].page_content]),
     docstore |-> docs \o docs,
     built_with |-> m,
     origin |-> "built"]

\* FAISS.from_documents(docs, embeddings): one vector and one docstore entry
\* per document, in order (index_to_docstore_id maps position i to entry i)
FromDocuments(docs, m) ==
    [embeddings |-> m,
     index |-> EmbedDocuments(m, [i \in 1..Len(docs) |-> docs[i].page_content]),
     docstore |-> docs,
     built_with |-> m,
     origin |-> "built"]

\* mutant: the first n entries of the index, whatever their distance
IndexSearchFirst(index, x, n) ==
    [r \in 1..n |-> IF r <= Len(index) THEN r ELSE -1]

\* index.search(x, n): the positions of the n nearest entries, nearest
\* first (ties by position), padded with -1 when the index holds fewer
IndexSearch(index, x, n) ==
    LET dist == [j \in 1..Len(index) |-> L2(index[j], x)]
        rank == [i \in 1..Len(index) |->
                    1 + Cardinality({j \in 1..Len(index) :
                                        \/ dist[j] < dist[i]
                                        \/ dist[j] = dist[i] /\ j < i})]
    IN  [r \in 1..n |->
            IF r <= Len(index)
            THEN CHOOSE i \in 1..Len(index) : rank[i] = r
            ELSE -1]

\* [index.reconstruct(i) for i in indices if i != -1]
RECURSIVE Reconstruct(_, _)
Reconstruct(index, indices) ==
    IF indices = <<>> THEN <<>>
    ELSE IF Head(indices) = -1 THEN Reconstruct(index, Tail(indices))
    ELSE <<index[Head(indices)]>> \o Reconstruct(index, Tail(indices))

InSeq(x, s) == \E i \in 1..Len(s) : s[i] = x

Min2(a, b) == IF a <= b THEN a ELSE b

\* max(similarity_to_selected[i]): the greatest similarity of candidate i
\* to a candidate already selected
Redundancy(list, idxs, i) ==
    CHOOSE m \in {Dot(list[i], list[idxs[j]]) : j \in 1..Len(idxs)} :
        \A j \in 1..Len(idxs) : Dot(list[i], list[idxs[j]]) <= m

\* mutant: the redundancy term is left out, candidates are taken by relevance
EquationScoreNoPenalty(query, list, idxs, i) ==
    Dot(query, list[i])

\* lambda_mult * query_score - (1 - lambda_mult) * redundant_score with the
\* default lambda_mult = 0.5, times 2 * 25
EquationScore(query, list, idxs, i) ==
    Dot(query, list[i]) - Redundancy(list, idxs, i)

\* mutant: the first position with the smallest score
FirstWorst(score) ==
    CHOOSE i \in DOMAIN score :
        /\ \A j \in DOMAIN score : score[i] <= score[j]
        /\ \A j \in DOMAIN score : score[j] = score[i] => i <= j

\* the first position with the greatest score (np.argmax; the loop's strict >)
FirstBest(score) ==
    CHOOSE i \in DOMAIN score :
        /\ \A j \in DOMAIN score : score[j] <= score[i]
        /\ \A j \in DOMAIN score : score[j] = score[i] => i <= j

\* mutant: a candidate already selected can be selected again
RECURSIVE MMRLoopReselect(_, _, _, _)
MMRLoopReselect(query, list, n, idxs) ==
    IF Len(idxs) >= Min2(n, Len(list)) THEN idxs
    ELSE LET score == [i \in 1..Len(list) |-> EquationScore(query, list, idxs, i)]
         IN  MMRLoopReselect(query, list, n, Append(idxs, FirstBest(score)))

\* maximal_marginal_relevance(query, embedding_list, lambda_mult=0.5, k):
\* positions in embedding_list, in the order they are selected
RECURSIVE MMRLoop(_, _, _, _)
MMRLoop(query, list, n, idxs) ==
    IF Len(idxs) >= Min2(n, Len(list)) THEN idxs
    ELSE LET cands == {i \in 1..Len(list) : ~InSeq(i, idxs)}
             score == [i \in cands |-> EquationScore(query, list, idxs, i)]
         IN  MMRLoop(query, list, n, Append(idxs, FirstBest(score)))

MaximalMarginalRelevance(query, list, n) ==
    IF Min2(n, Len(list)) <= 0 THEN <<>>
    ELSE LET sim == [i \in 1..Len(list) |-> Dot(query, list[i])]
         IN  MMRLoop(query, list, n, <<FirstBest(sim)>>)

\* mutant: the selection is cut one short
MMRSearchShort(db, x, n, fetch_k) ==
    LET indices == IndexSearch(db.index, x, fetch_k)
        selected == MaximalMarginalRelevance(x, Reconstruct(db.index, indices), n - 1)
    IN  [r \in 1..Len(selected) |->
            [doc |-> db.docstore[indices[selected[r]]],
             id |-> indices[selected[r]],
             score |-> L2(db.index[indices[selected[r]]], x),
             rank |-> selected[r],
             fetched |-> Len(Reconstruct(db.index, indices))]]

\* FAISS.max_marginal_relevance_search_with_score_by_vector(x, k, fetch_k):
\* fetch_k nearest candidates, re-ranked; each result with its document,
\* its position in the index and its distance to the query, and as history
\* its place among the candidates and how many candidates were fetched
MMRSearch(db, x, n, fetch_k) ==
    LET indices == IndexSearch(db.index, x, fetch_k)
        selected == MaximalMarginalRelevance(x, Reconstruct(db.index, indices), n)
    IN  [r \in 1..Len(selected) |->
            [doc |-> db.docstore[indices[selected[r]]],
             id |-> indices[selected[r]],
             score |-> L2(db.index[indices[selected[r]]], x),
             rank |-> selected[r],
             fetched |-> Len(Reconstruct(db.index, indices))]]

\* mutant: the query is added to the index it is searched in
MMRSearchUpsert(db, x, n, fetch_k) ==
    [db EXCEPT !.index = Append(@, x), !.docstore = Append(@, db.docstore[1])]

\* mutant: the search leaves the query in the first slot of the index
AfterSearchScratch(db, x, n, fetch_k) ==
    [db EXCEPT !.index = <<x>> \o Tail(@)]

\* the store after a search: searching does not change it
AfterSearch(db, x, n, fetch_k) == db

\* the retriever's configuration: search_type="mmr", search_kwargs={"k": 10};
\* fetch_k keeps the default of the store's MMR search
K == 10
FetchK == 20

\* mutant: only as many candidates are fetched as results are asked for
RetrieverInvokeNoOversampling(db, query, n) ==
    MMRSearch(db, Embed(db.embeddings, query), n, n)

\* retriever.invoke(query): the query is embedded with the store's model
RetrieverInvoke(db, query, n) == MMRSearch(db, Embed(db.embeddings, query), n, FetchK)

(***************************************************************************)
(* Persistence: save_local writes index.faiss (the dimension, the number   *)
(* of vectors and the vector components in one row) and index.pkl (the     *)
(* docstore) into a directory; load_local reads them back.  Which model    *)
(* built the vectors is not written; built_with is history.                *)
(***************************************************************************)
SavePath == <<".", "embeddings">>
LoadPath == <<"embeddings">>

\* Path(folder_path): "." components are dropped
RECURSIVE PathOf(_)
PathOf(parts) ==
    IF parts = <<>> THEN <<>>
    ELSE IF Head(parts) = "." THEN PathOf(Tail(parts))
    ELSE <<Head(parts)>> \o PathOf(Tail(parts))

\* mutant: the path is taken as written
PathAsWritten(parts) == parts

Dim(index) == Len(index[1])

\* faiss.write_index(index)
WriteIndex(index) ==
    [d |-> Dim(index),
     ntotal |-> Len(index),
     xb |-> [c \in 1..(Len(index) * Dim(index)) |->
                index[((c - 1) \div Dim(index)) + 1][((c - 1) % Dim(index)) + 1]]]

\* mutant: the components are read column by column
ReadIndexTransposed(f) ==
    [i \in 1..f.ntotal |-> [j \in 1..f.d |-> f.xb[(j - 1) * f.ntotal + i]]]

\* faiss.read_index(path)
ReadIndex(f) ==
    [i \in 1..f.ntotal |-> [j \in 1..f.d |-> f.xb[(i - 1) * f.d + j]]]

\* vector_db.save_local(folder_path)
SaveLocal(fs, parts, db) ==
    (PathOf(parts) :> [index_faiss |-> WriteIndex(db.index),
                       index_pkl |-> db.docstore,
                       built_with |-> db.built_with]) @@ fs

\* FAISS.load_local(folder_path, embeddings): the files are read as they
\* are, the embeddings object given is the one queries will be embedded with
LoadLocal(files, m) ==
    [embeddings |-> m,
     index |-> ReadIndex(files.index_faiss),
     docstore |-> files.index_pkl,
     built_with |-> files.built_with,
     origin |-> "loaded"]

(***************************************************************************)
(* The prompt.  A template is a sequence of literal pieces and fields; a   *)
(* text is a sequence of characters (a literal piece of the template       *)
(* counts as one).                                                         *)
(***************************************************************************)
Instruction == "You are an assistant for question-answering tasks. Use the following pieces of retrieved context to answer the question. If you don't know the answer, just say that you don't know. Use three sentences maximum and keep the answer concise.\nQuestion: "
RagPrompt == <<Instruction, "{question}", " \nContext: ", "{context}", " \nAnswer:">>

Fields == {"{question}", "{context}"}
FieldName(piece) == IF piece = "{question}" THEN "question" ELSE "context"

\* separator.join(texts)
RECURSIVE Join(_, _)
Join(sep, texts) ==
    IF texts = <<>> THEN <<>>
    ELSE IF Len(texts) = 1 THEN texts[1]
    ELSE texts[1] \o sep \o Join(sep, Tail(texts))

\* [doc for doc, _ in docs_and_scores]: the documents the retriever hands
\* on, without the scores and positions kept with them in the model
DocsOf(results) == [i \in 1..Len(results) |-> results[i].doc]

\* mutant: the documents are joined by a single newline
FormatDocsOneNewline(docs) == Join(<<NL>>, [i \in 1..Len(docs) |-> docs[i].page_content])

\* mutant: a blank line after every document, the last one too
RECURSIVE FormatDocsTrailing(_)
FormatDocsTrailing(docs) ==
    IF docs = <<>> THEN <<>>
    ELSE Head(docs).page_content \o <<NL, NL>> \o FormatDocsTrailing(Tail(docs))

\* format_docs(docs)
FormatDocs(docs) == Join(<<NL, NL>>, [i \in 1..Len(docs) |-> docs[i].page_content])

\* mutant: the values put in are formatted again
RECURSIVE FormatTemplateNested(_, _)
FormatTemplateNested(template, kwargs) ==
    IF template = <<>> THEN <<>>
    ELSE (IF Head(template) \in Fields
          THEN FormatTemplateNested(kwargs[FieldName(Head(template))], kwargs)
          ELSE <<Head(template)>>)
         \o FormatTemplateNested(Tail(template), kwargs)

\* template.format(**kwargs): one pass over the template, every field
\* replaced by the value given for it
RECURSIVE FormatTemplate(_, _)
FormatTemplate(template, kwargs) ==
    IF template = <<>> THEN <<>>
    ELSE (IF Head(template) \in Fields
          THEN kwargs[FieldName(Head(template))]
          ELSE <<Head(template)>>)
         \o FormatTemplate(Tail(template), kwargs)

\* prompt.invoke({"context": ..., "question": ...}): the message content
PromptInvoke(input) == FormatTemplate(RagPrompt, input)

\* the texts of the source files: the third one holds an f-string, text
\* that reads like a field of the prompt template
ChunkTexts == << <<"a">>, <<"b">>, <<"c", "{question}">> >>

SampleQuery == <<"q">>
ChainQuestion == <<"w">>

\* the texts the chain is invoked with: the notebook's question, and the
\* same typed with a space before it and a line break after it
ChainQuestions == {ChainQuestion, <<SP>> \o ChainQuestion \o <<NL>>}

(***************************************************************************)
(* The notebooks.                                                          *)
(***************************************************************************)
Setup == "CodeExplainerSetup"
Explainer == "CodeExplainer"
Notebooks == {Setup, Explainer}

SetupChunkSize == 750
SetupChunkOverlap == 75
ExplainerChunkSize == 10000
ExplainerChunkOverlap == 800

ChunkSizeOf(n) == IF n = Setup THEN SetupChunkSize ELSE ExplainerChunkSize
ChunkOverlapOf(n) == IF n = Setup THEN SetupChunkOverlap ELSE ExplainerChunkOverlap
EmbeddingModelOf(n) == IF n = Setup THEN L6 ELSE L12

Idle == [retrieval |-> "idle", question |-> "idle"]

\* the loader before load() is called
NotLoaded == [files |-> 0, read |-> 0, failed |-> 0]

\* the values the names of a fresh kernel have
FreshChain ==
    /\ branch = Idle
    /\ chain_docs = <<>>
    /\ context = <<>>
    /\ passthrough = <<>>
    /\ retriever_input = <<>>
    /\ prompt_value = <<>>
    /\ completion = <<>>
    /\ answer = None
    /\ trace = <<>>
    /\ llm_calls = 0

(***************************************************************************)
(* The cells of the notebooks, as actions.                                 *)
(***************************************************************************)
\* a notebook is opened and run from its first cell; the kernel is fresh,
\* the files of earlier runs are there
StartRun ==
    /\ pc \in {"idle", "done", "failed"}
    /\ runs < MaxRuns
    /\ runs' = runs + 1
    /\ \E n \in Notebooks :
           /\ nb' = n
           /\ chunk_size' = ChunkSizeOf(n)
           /\ chunk_overlap' = ChunkOverlapOf(n)
    /\ loader' = NotLoaded
    /\ documents' = <<>>
    /\ doc_chunks' = <<>>
    /\ vector_db' = None
    /\ docs_retrieved' = <<>>
    /\ question' = <<>>
    /\ branch' = Idle
    /\ chain_docs' = <<>>
    /\ context' = <<>>
    /\ passthrough' = <<>>
    /\ retriever_input' = <<>>
    /\ prompt_value' = <<>>
    /\ completion' = <<>>
    /\ answer' = None
    /\ trace' = <<>>
    /\ llm_calls' = 0
    /\ error' = ""
    /\ pc' = "load"
    /\ log' = <<>>
    /\ UNCHANGED <<model_weights, callers, disk, saved_db, search_k>>

\* the texts of the source tree: its i-th file
SourceFile(i) ==
    [page_content |-> <<NL>> \o ChunkTexts[((i - 1) % Len(ChunkTexts)) + 1] \o <<SP>>,
     source |-> "a.py"]

\* mutant: a file that cannot be read is left out
LoadedDocumentsSkipFailed(n, f) ==
    [i \in 1..(IF f = 0 THEN n ELSE n - 1) |->
        SourceFile(IF f = 0 \/ i < f THEN i ELSE i + 1)]

\* what documents is bound to after loader.load() on a tree of n files of
\* which file f cannot be read (f = 0: all can): load() is
\* list(self.lazy_load()), so an exception raised while a file is parsed
\* leaves the list unbuilt and the name unbound
LoadedDocuments(n, f) == IF f = 0 THEN [i \in 1..n |-> SourceFile(i)] ELSE <<>>

\* mutant: the run goes on after the error
LoadOutcomeContinue(f) == "split"

\* where the run is after the load cell: an exception stops it
LoadOutcome(f) == IF f = 0 THEN "split" ELSE "failed"

\* documents = loader.load(): the files of the tree parsed in order, or the
\* error of the first file that cannot be read
Load ==
    /\ pc = "load"
    /\ \E n \in 0..MaxDocs : \E f \in 0..n :
           /\ loader' = [files |-> n, read |-> IF f = 0 THEN n ELSE f - 1, failed |-> f]
           /\ documents' = LoadedDocuments(n, f)
           /\ error' = IF f = 0 THEN "" ELSE "IOError"
           /\ pc' = LoadOutcome(f)
    /\ UNCHANGED <<nb, runs, chunk_size, chunk_overlap, doc_chunks, model_weights, callers, log,
                   storeVars, search_k, question, docs_retrieved, chainVars>>

\* doc_chunks = code_splitter.split_documents(documents)
Split ==
    /\ pc = "split"
    /\ doc_chunks' = SplitDocuments(documents, 1, chunk_size, chunk_overlap)
    /\ pc' = "split_done"
    /\ UNCHANGED <<nb, runs, splitVars, model_weights, callers, log, storeVars, search_k, question,
                   docs_retrieved, chainVars, error>>

\* the cell the store is built or loaded after: in CodeExplainerSetup the
\* token length cell stands between the split and the store
BeforeIndex(n) == IF n = Setup THEN "measured" ELSE "split_done"

\* the greatest element of a non-empty set of numbers
Max(S) == CHOOSE x \in S : \A y \in S : y <= x

\* text.split(): the words of a text are its maximal runs of characters
\* that are not whitespace
WordCount(text) ==
    Cardinality({i \in 1..Len(text) :
                    /\ text[i] \notin Whitespace
                    /\ i = 1 \/ text[i - 1] \in Whitespace})

\* a float is kept as the integer number of its binary places: below
\* 2^(52 - FloatPlaces) a double has at least FloatPlaces of them
FloatPlaces == 16

RECURSIVE Pow2(_)
Pow2(n) == IF n = 0 THEN 1 ELSE 2 * Pow2(n - 1)

\* n / d of two integers: the quotient rounded to the nearest float, to the
\* even one of two equally near
TrueDiv(n, d) ==
    LET scaled == n * Pow2(FloatPlaces)
        q == scaled \div d
        r == scaled % d
    IN  IF 2 * r > d \/ (2 * r = d /\ q % 2 = 1) THEN q + 1 ELSE q

\* mutant: the float is rounded to the nearest integer
IntOfRounded(x) == (x + Pow2(FloatPlaces - 1)) \div Pow2(FloatPlaces)

\* int(x) of a float that is not negative: the fraction is cut off
IntOf(x) == x \div Pow2(FloatPlaces)

\* int(max([len(sent.page_content.split())*4/3 for sent in doc_chunks]))
ExpectedMaxTokens(chunks) ==
    IntOf(Max({TrueDiv(WordCount(chunks[i].page_content) * 4, 3) :
                  i \in 1..Len(chunks)}))

\* the cell of CodeExplainerSetup that shows the expected greatest number of
\* tokens of a chunk (max raises on an empty list)
ExpectedTokens ==
    /\ pc = "split_done"
    /\ nb = Setup
    /\ IF doc_chunks = <<>>
       THEN /\ error' = "ValueError"
            /\ pc' = "failed"
            /\ UNCHANGED log
       ELSE /\ log' = Append(log, [kind |-> "out",
                                   expected_tokens |-> ExpectedMaxTokens(doc_chunks)])
            /\ pc' = "estimated"
            /\ UNCHANGED error
    /\ UNCHANGED <<nb, runs, splitVars, doc_chunks, model_weights, callers, storeVars, search_k,
                   question, docs_retrieved, chainVars>>

\* the token length cell of CodeExplainerSetup: prints the model's maximum
\* sequence length and the greatest token length of a chunk (np.max raises
\* on an empty list)
TokenLengths ==
    /\ pc = "estimated"
    /\ nb = Setup
    /\ IF doc_chunks = <<>>
       THEN /\ error' = "ValueError"
            /\ pc' = "failed"
            /\ log' = Append(log, [kind |-> "print", max_seq_length |-> MaxSeqLength])
       ELSE /\ log' = log \o
                    << [kind |-> "print", max_seq_length |-> MaxSeqLength],
                       [kind |-> "print",
                        max_length |-> Max({Len(doc_chunks[i].page_content) :
                                               i \in 1..Len(doc_chunks)})] >>
            /\ pc' = "measured"
            /\ UNCHANGED error
    /\ UNCHANGED <<nb, runs, splitVars, doc_chunks, model_weights, callers, storeVars, search_k,
                   question, docs_retrieved, chainVars>>

\* the generation cell: vector_db = FAISS.from_documents(doc_chunks,
\* embeddings); vector_db.save_local("./embeddings").  An empty list of
\* chunks raises (the index is sized from the first embedding) and nothing
\* is saved
GenerateCell ==
    /\ pc = BeforeIndex(nb)
    /\ log' = log \o EmbedWarnings(EmbeddingModelOf(nb), doc_chunks)
    /\ IF doc_chunks = <<>>
       THEN /\ error' = "IndexError"
            /\ pc' = "failed"
            /\ UNCHANGED storeVars
       ELSE LET db == FromDocuments(doc_chunks, EmbeddingModelOf(nb))
            IN  /\ vector_db' = db
                /\ disk' = SaveLocal(disk, SavePath, db)
                /\ saved_db' = db
                /\ pc' = "generated"
                /\ UNCHANGED error
    /\ UNCHANGED <<nb, runs, splitVars, doc_chunks, model_weights, callers, search_k, question,
                   docs_retrieved, chainVars>>

\* the loading cell: vector_db = FAISS.load_local("embeddings", embeddings),
\* run after the generation cell or instead of it; without the files it
\* raises
LoadCell ==
    /\ pc \in {BeforeIndex(nb), "generated"}
    /\ IF PathOf(LoadPath) \in DOMAIN disk
       THEN /\ vector_db' = LoadLocal(disk[PathOf(LoadPath)], EmbeddingModelOf(nb))
            /\ pc' = "loaded"
            /\ UNCHANGED error
       ELSE /\ error' = "RuntimeError"
            /\ pc' = "failed"
            /\ UNCHANGED vector_db
    /\ UNCHANGED <<nb, runs, splitVars, doc_chunks, model_weights, callers, log, disk, saved_db,
                   search_k, question, docs_retrieved, chainVars>>

\* retriever = vector_db.as_retriever(search_type="mmr", search_kwargs={"k": 10})
AsRetriever ==
    /\ pc \in {"generated", "loaded"}
    /\ pc' = "ready"
    /\ UNCHANGED <<nb, runs, splitVars, doc_chunks, model_weights, callers, log, storeVars, search_k,
                   question, docs_retrieved, chainVars, error>>

\* query = "What do the scraper do?"; docs_retrieved = retriever.invoke(query)
Retrieve ==
    /\ pc = "ready"
    /\ question' = SampleQuery
    /\ docs_retrieved' = RetrieverInvoke(vector_db, SampleQuery, search_k)
    /\ vector_db' = AfterSearch(vector_db, Embed(vector_db.embeddings, SampleQuery),
                                search_k, FetchK)
    /\ pc' = "retrieved"
    /\ UNCHANGED <<nb, runs, splitVars, doc_chunks, model_weights, callers, log, disk, saved_db,
                   search_k, chainVars, error>>

\* what a request to the local model endpoint ends in
Outcomes == {"ok", "ConnectionError", "Timeout"}

\* llm = Ollama(model="gemma:7b"); llm.invoke("Tell me a joke ...")
LlmSample ==
    /\ pc = "retrieved"
    /\ \E outcome \in Outcomes :
           IF outcome = "ok"
           THEN pc' = "llm_ready" /\ UNCHANGED error
           ELSE pc' = "failed" /\ error' = outcome
    /\ UNCHANGED <<nb, runs, splitVars, doc_chunks, model_weights, callers, log, storeVars, search_k,
                   question, docs_retrieved, chainVars>>

\* rag_chain.invoke(question): the input is handed to both branches of the
\* first step, which run side by side
ChainInvoke ==
    /\ pc = "llm_ready"
    /\ question' \in ChainQuestions
    /\ branch' = [retrieval |-> "retrieve", question |-> "passthrough"]
    /\ pc' = "chain_input"
    /\ UNCHANGED <<nb, runs, splitVars, doc_chunks, model_weights, callers, log, storeVars, search_k,
                   docs_retrieved, chain_docs, context, passthrough, retriever_input, prompt_value,
                   completion, answer, trace, llm_calls, error>>

\* "context": retriever | format_docs, the retriever
RetrieveStage ==
    /\ pc = "chain_input"
    /\ branch.retrieval = "retrieve"
    /\ retriever_input' = question
    /\ chain_docs' = RetrieverInvoke(vector_db, question, search_k)
    /\ vector_db' = AfterSearch(vector_db, Embed(vector_db.embeddings, question),
                                search_k, FetchK)
    /\ branch' = [branch EXCEPT !.retrieval = "format"]
    /\ trace' = Append(trace, "retrieve")
    /\ UNCHANGED <<nb, runs, splitVars, doc_chunks, model_weights, callers, log, disk, saved_db,
                   search_k, question, docs_retrieved, context, passthrough,
                   prompt_value, completion, answer, llm_calls, error, pc>>

\* "context": retriever | format_docs, format_docs
FormatStage ==
    /\ pc = "chain_input"
    /\ branch.retrieval = "format"
    /\ context' = FormatDocs(DocsOf(chain_docs))
    /\ branch' = [branch EXCEPT !.retrieval = "done"]
    /\ trace' = Append(trace, "format")
    /\ UNCHANGED <<nb, runs, splitVars, doc_chunks, model_weights, callers, log, storeVars, search_k,
                   question, docs_retrieved, chain_docs, passthrough, retriever_input, prompt_value,
                   completion, answer, llm_calls, error, pc>>

\* mutant: the input is handed on without its whitespace
RunnablePassthroughTidied(input) == SelectSeq(input, LAMBDA c : c \notin Whitespace)

\* RunnablePassthrough().invoke(input): the input itself
RunnablePassthrough(input) == input

\* "question": RunnablePassthrough()
PassthroughStage ==
    /\ pc = "chain_input"
    /\ branch.question = "passthrough"
    /\ passthrough' = RunnablePassthrough(question)
    /\ branch' = [branch EXCEPT !.question = "done"]
    /\ trace' = Append(trace, "passthrough")
    /\ UNCHANGED <<nb, runs, splitVars, doc_chunks, model_weights, callers, log, storeVars, search_k,
                   question, docs_retrieved, chain_docs, context, retriever_input,
                   prompt_value, completion, answer, llm_calls, error, pc>>

\* mutant: the prompt does not wait for format_docs
InputsReadyEarly(b) == b.retrieval \in {"format", "done"} /\ b.question = "done"

\* both branches of the first step have returned
InputsReady(b) == b.retrieval = "done" /\ b.question = "done"

\* | prompt
PromptStage ==
    /\ pc = "chain_input"
    /\ InputsReady(branch)
    /\ prompt_value' = PromptInvoke([context |-> context, question |-> passthrough])
    /\ pc' = "chain_llm"
    /\ trace' = Append(trace, "prompt")
    /\ UNCHANGED <<nb, runs, splitVars, doc_chunks, model_weights, callers, log, storeVars, search_k,
                   question, docs_retrieved, branch, chain_docs, context, passthrough, retriever_input,
                   completion, answer, llm_calls, error>>

\* mutant: a failed request is sent again
AfterFailureRetry(outcome) == "chain_llm"

\* where the chain goes when the request fails: the exception leaves the chain
AfterFailure(outcome) == "failed"

\* | llm: one request to the endpoint; its text, or the exception
LlmStage ==
    /\ pc = "chain_llm"
    /\ llm_calls' = llm_calls + 1
    /\ trace' = Append(trace, "generate")
    /\ \E outcome \in Outcomes :
           IF outcome = "ok"
           THEN /\ completion' = <<"A">>
                /\ pc' = "chain_parse"
                /\ UNCHANGED error
           ELSE /\ error' = outcome
                /\ pc' = AfterFailure(outcome)
                /\ UNCHANGED completion
    /\ UNCHANGED <<nb, runs, splitVars, doc_chunks, model_weights, callers, log, storeVars, search_k,
                   question, docs_retrieved, branch, chain_docs, context, passthrough, retriever_input,
                   prompt_value, answer>>

\* | StrOutputParser(): the model's text is the result
ParseStage ==
    /\ pc = "chain_parse"
    /\ answer' = completion
    /\ pc' = "done"
    /\ trace' = Append(trace, "parse")
    /\ UNCHANGED <<nb, runs, splitVars, doc_chunks, model_weights, callers, log, storeVars, search_k,
                   question, docs_retrieved, branch, chain_docs, context, passthrough, retriever_input,
                   prompt_value, completion, llm_calls, error>>

(***************************************************************************)
(* The notebooks run one after another from the same directory.            *)
(***************************************************************************)
\* one table for both models: the second model is the first turned by a
\* quarter, a different function of the text
Turned(v) == <<-v[2], v[1]>>
Weights(table) == (L6 :> table) @@ (L12 :> [c \in DOMAIN table |-> Turned(table[c])])
TextKeys == {"", SP, "a", "b", "c", "q", "w"}
FixedTable == [c \in TextKeys |-> <<5, 0>>]
TableOne ==
    ("" :> <<5, 0>>) @@ ("a" :> <<4, 3>>) @@ ("b" :> <<3, 4>>) @@ ("c" :> <<0, -5>>)
    @@ ("q" :> <<5, 0>>) @@ ("w" :> <<3, 4>>) @@ (SP :> <<0, -5>>)
TableTwo ==
    ("" :> <<5, 0>>) @@ ("a" :> <<0, 5>>) @@ ("b" :> <<-5, 0>>) @@ ("c" :> <<4, 3>>)
    @@ ("q" :> <<3, -4>>) @@ ("w" :> <<-4, 3>>) @@ (SP :> <<0, 5>>)

Init ==
    /\ nb = ""
    /\ runs = 0
    /\ loader = NotLoaded
    /\ documents = <<>>
    /\ chunk_size = SetupChunkSize
    /\ chunk_overlap = SetupChunkOverlap
    /\ doc_chunks = <<>>
    /\ model_weights \in {Weights(TableOne), Weights(TableTwo)}
    /\ log = <<>>
    /\ callers = <<>>
    /\ vector_db = None
    /\ disk = <<>>
    /\ saved_db = None
    /\ search_k = K
    /\ question = <<>>
    /\ docs_retrieved = <<>>
    /\ FreshChain
    /\ error = ""
    /\ pc = "idle"

Next ==
    \/ StartRun
    \/ Load
    \/ Split
    \/ ExpectedTokens
    \/ TokenLengths
    \/ GenerateCell
    \/ LoadCell
    \/ AsRetriever
    \/ Retrieve
    \/ LlmSample
    \/ ChainInvoke
    \/ RetrieveStage
    \/ FormatStage
    \/ PassthroughStage
    \/ PromptStage
    \/ LlmStage
    \/ ParseStage

Spec == Init /\ [][Next]_vars

(***************************************************************************)
(* The splitter on its own: every document of up to MaxDocTokens tokens    *)
(* and every chunk size up to MaxChunkSize with a smaller overlap.         *)
(***************************************************************************)
Tokens == {SepClass, SepDef, <<NL>>, <<SP>>, <<"x">>, <<"y", "z">>}

RECURSIVE TokenTexts(_)
TokenTexts(n) ==
    IF n = 0 THEN {<<>>}
    ELSE LET shorter == TokenTexts(n - 1)
         IN  shorter \cup {t \o u : t \in shorter, u \in Tokens}

InitSplit ==
    /\ nb = Setup
    /\ runs = 1
    /\ loader = [files |-> 1, read |-> 1, failed |-> 0]
    /\ \E t \in TokenTexts(MaxDocTokens) :
           documents = << [page_content |-> t, source |-> "a.py"] >>
    /\ chunk_size \in 1..MaxChunkSize
    /\ chunk_overlap \in 0..(chunk_size - 1)
    /\ doc_chunks = <<>>
    /\ model_weights = Weights(FixedTable)
    /\ log = <<>>
    /\ callers = <<>>
    /\ vector_db = None
    /\ disk = <<>>
    /\ saved_db = None
    /\ search_k = K
    /\ question = <<>>
    /\ docs_retrieved = <<>>
    /\ FreshChain
    /\ error = ""
    /\ pc = "split"

NextSplit == Split

SpecSplit == InitSplit /\ [][NextSplit]_vars

\* the split cell, once started, is run to its end: the step the cell takes
\* is the step from "split" to "split_done"
SplitRuns == pc = "split" /\ pc' = "split_done"

SpecSplitFair == SpecSplit /\ WF_pc(SplitRuns)

(***************************************************************************)
(* The store and the retriever on their own: up to MaxEntries chunks whose *)
(* texts repeat "a", "b", "c", every embedding table of the model over     *)
(* a set of directions, the query "q".                                     *)
(***************************************************************************)
Directions == {<<5, 0>>, <<4, 3>>, <<3, 4>>, <<0, -5>>}
ChunkList(n) ==
    [i \in 1..n |->
        [page_content |-> ChunkTexts[((i - 1) % Len(ChunkTexts)) + 1],
         source |-> "a.py", doc |-> 1, lo |-> i, hi |-> i]]

InitRetrieve ==
    /\ nb = Setup
    /\ runs = 1
    /\ loader = NotLoaded
    /\ documents = <<>>
    /\ chunk_size = SetupChunkSize
    /\ chunk_overlap = SetupChunkOverlap
    /\ \E n \in 1..MaxEntries : doc_chunks = ChunkList(n)
    /\ \E table \in [{"a", "b", "c", "q"} -> Directions] :
           model_weights = Weights(table @@ [c \in TextKeys |-> <<5, 0>>])
    /\ log = <<>>
    /\ callers = <<>>
    /\ vector_db = None
    /\ disk = <<>>
    /\ saved_db = None
    /\ search_k \in {1, 2, K}
    /\ question = <<>>
    /\ docs_retrieved = <<>>
    /\ FreshChain
    /\ error = ""
    /\ pc = "measured"

NextRetrieve == GenerateCell \/ AsRetriever \/ Retrieve

SpecRetrieve == InitRetrieve /\ [][NextRetrieve]_vars

(***************************************************************************)
(* The diagnostic cells of CodeExplainerSetup on their own: lists of up to *)
(* MaxDiagChunks chunks of one to MaxWords words, the words parted by a    *)
(* space or by a line break and a tab.                                     *)
(***************************************************************************)
MaxDiagChunks == 3
MaxWords == 5
WordGaps == {<<SP>>, <<NL, TAB>>}

RECURSIVE WordsText(_, _)
WordsText(w, gap) ==
    IF w = 1 THEN <<"x", "y">> ELSE WordsText(w - 1, gap) \o gap \o <<"x", "y">>

InitDiagnostic ==
    /\ nb = Setup
    /\ runs = 1
    /\ loader = NotLoaded
    /\ documents = <<>>
    /\ chunk_size = SetupChunkSize
    /\ chunk_overlap = SetupChunkOverlap
    /\ \E n \in 0..MaxDiagChunks : \E words \in [1..n -> 1..MaxWords] :
       \E gap \in WordGaps :
           doc_chunks = [i \in 1..n |->
                            [page_content |-> WordsText(words[i], gap),
                             source |-> "a.py", doc |-> 1,
                             lo |-> 1, hi |-> Len(WordsText(words[i], gap))]]
    /\ model_weights = Weights(FixedTable)
    /\ log = <<>>
    /\ callers = <<>>
    /\ vector_db = None
    /\ disk = <<>>
    /\ saved_db = None
    /\ search_k = K
    /\ question = <<>>
    /\ docs_retrieved = <<>>
    /\ FreshChain
    /\ error = ""
    /\ pc = "split_done"

NextDiagnostic == ExpectedTokens \/ TokenLengths

SpecDiagnostic == InitDiagnostic /\ [][NextDiagnostic]_vars

(***************************************************************************)
(* format_docs on its own: lists of up to MaxFormatDocs retrieved          *)
(* documents, in any order and with repetitions, of texts with and without *)
(* line breaks and blank lines inside; the empty list is the input of the  *)
(* function that no retrieval of the notebooks produces.                   *)
(***************************************************************************)
MaxFormatDocs == 3
FormatTexts ==
    { <<"a">>, <<"b", NL, "c">>, <<"d", NL, NL, "e">>, <<"f", SP, "g", NL, NL, NL, "h">> }

InitFormat ==
    /\ nb = Setup
    /\ runs = 1
    /\ loader = NotLoaded
    /\ documents = <<>>
    /\ chunk_size = SetupChunkSize
    /\ chunk_overlap = SetupChunkOverlap
    /\ doc_chunks = <<>>
    /\ model_weights = Weights(FixedTable)
    /\ log = <<>>
    /\ callers = <<>>
    /\ vector_db = None
    /\ disk = <<>>
    /\ saved_db = None
    /\ search_k = K
    /\ question = ChainQuestion
    /\ docs_retrieved = <<>>
    /\ branch = [retrieval |-> "format", question |-> "passthrough"]
    /\ \E n \in 0..MaxFormatDocs : \E texts \in [1..n -> FormatTexts] :
           chain_docs = [i \in 1..n |->
                            [doc |-> [page_content |-> texts[i], source |-> "a.py",
                                      doc |-> 1, lo |-> 1, hi |-> Len(texts[i])],
                             id |-> i, score |-> 0, rank |-> i, fetched |-> n]]
    /\ context = <<>>
    /\ passthrough = <<>>
    /\ retriever_input = ChainQuestion
    /\ prompt_value = <<>>
    /\ completion = <<>>
    /\ answer = None
    /\ trace = <<"retrieve">>
    /\ llm_calls = 0
    /\ error = ""
    /\ pc = "chain_input"

NextFormat == FormatStage \/ PassthroughStage \/ PromptStage

SpecFormat == InitFormat /\ [][NextFormat]_vars

(***************************************************************************)
(* Several callers of the retriever at work side by side on the store the  *)
(* notebook built.  retriever.invoke is taken one library call at a time:  *)
(* embed_query, index.search, index.reconstruct, then the re-ranking with  *)
(* the docstore lookups; between two calls of one caller the others may    *)
(* act.  The notebooks themselves make one call at a time.                 *)
(***************************************************************************)
MaxCallers == 2
CallerQueries == <<SampleQuery, ChainQuestion>>

NewCaller(query) ==
    [pc |-> "embed", query |-> query, embedding |-> <<>>, indices |-> <<>>,
     scores |-> <<>>, vectors |-> <<>>, result |-> <<>>]

\* embedding = self._embed_query(query)
CallerEmbed(c) ==
    /\ pc = "ready"
    /\ callers[c].pc = "embed"
    /\ callers' = [callers EXCEPT
                      ![c].embedding = Embed(vector_db.embeddings, callers[c].query),
                      ![c].pc = "search"]
    /\ UNCHANGED <<nb, runs, splitVars, doc_chunks, model_weights, log, storeVars, search_k,
                   question, docs_retrieved, chainVars, error, pc>>

\* scores, indices = self.index.search(embedding, fetch_k)
CallerSearch(c) ==
    /\ pc = "ready"
    /\ callers[c].pc = "search"
    /\ LET x == callers[c].embedding
           indices == IndexSearch(vector_db.index, x, FetchK)
       IN  /\ callers' = [callers EXCEPT
                             ![c].indices = indices,
                             ![c].scores = [r \in 1..FetchK |->
                                               IF indices[r] = -1 THEN -1
                                               ELSE L2(vector_db.index[indices[r]], x)],
                             ![c].pc = "reconstruct"]
           /\ vector_db' = AfterSearch(vector_db, x, search_k, FetchK)
    /\ UNCHANGED <<nb, runs, splitVars, doc_chunks, model_weights, log, disk, saved_db,
                   search_k, question, docs_retrieved, chainVars, error, pc>>

\* embeddings = [self.index.reconstruct(int(i)) for i in indices[0] if i != -1]
CallerReconstruct(c) ==
    /\ pc = "ready"
    /\ callers[c].pc = "reconstruct"
    /\ callers' = [callers EXCEPT
                      ![c].vectors = Reconstruct(vector_db.index, callers[c].indices),
                      ![c].pc = "rerank"]
    /\ UNCHANGED <<nb, runs, splitVars, doc_chunks, model_weights, log, storeVars, search_k,
                   question, docs_retrieved, chainVars, error, pc>>

\* mmr_selected = maximal_marginal_relevance(...), then for each selected
\* candidate its document from the docstore and its score
CallerRerank(c) ==
    /\ pc = "ready"
    /\ callers[c].pc = "rerank"
    /\ LET me == callers[c]
           selected == MaximalMarginalRelevance(me.embedding, me.vectors, search_k)
       IN  callers' = [callers EXCEPT
                          ![c].result =
                              [r \in 1..Len(selected) |->
                                  [doc |-> vector_db.docstore[me.indices[selected[r]]],
                                   id |-> me.indices[selected[r]],
                                   score |-> me.scores[selected[r]],
                                   rank |-> selected[r],
                                   fetched |-> Len(me.vectors)]],
                          ![c].pc = "done"]
    /\ UNCHANGED <<nb, runs, splitVars, doc_chunks, model_weights, log, storeVars, search_k,
                   question, docs_retrieved, chainVars, error, pc>>

InitConcurrent ==
    /\ nb = Setup
    /\ runs = 1
    /\ loader = NotLoaded
    /\ documents = <<>>
    /\ chunk_size = SetupChunkSize
    /\ chunk_overlap = SetupChunkOverlap
    /\ \E n \in 1..MaxEntries : doc_chunks = ChunkList(n)
    /\ model_weights \in {Weights(TableOne), Weights(TableTwo)}
    /\ log = <<>>
    /\ callers = [c \in 1..MaxCallers |->
                     NewCaller(CallerQueries[((c - 1) % Len(CallerQueries)) + 1])]
    /\ vector_db = None
    /\ disk = <<>>
    /\ saved_db = None
    /\ search_k \in {2, K}
    /\ question = <<>>
    /\ docs_retrieved = <<>>
    /\ FreshChain
    /\ error = ""
    /\ pc = "measured"

NextConcurrent ==
    \/ GenerateCell
    \/ AsRetriever
    \/ \E c \in 1..MaxCallers :
           CallerEmbed(c) \/ CallerSearch(c) \/ CallerReconstruct(c) \/ CallerRerank(c)

SpecConcurrent == InitConcurrent /\ [][NextConcurrent]_vars

(***************************************************************************)
(* The splitter of CodeExplainerSetup on one function: a source file that  *)
(* holds a def line and up to MaxLines body lines of one length, split     *)
(* with the notebook's chunk_size and chunk_overlap.                       *)
(***************************************************************************)
MaxLines == 28
LineLengths == {30, 50, 75, 101, 150}
DefLine == <<"d", "e", "f", SP, "f", "(", ")", ":">>

\* the def line followed by n lines of len characters, newline included
FunctionText(n, len) ==
    [i \in 1..(Len(DefLine) + n * len) |->
        IF i <= Len(DefLine) THEN DefLine[i]
        ELSE IF (i - Len(DefLine) - 1) % len = 0 THEN NL ELSE "x"]

InitFunction ==
    /\ nb = Setup
    /\ runs = 1
    /\ loader = [files |-> 1, read |-> 1, failed |-> 0]
    /\ \E n \in 0..MaxLines : \E len \in LineLengths :
           documents = << [page_content |-> FunctionText(n, len), source |-> "a.py"] >>
    /\ chunk_size = ChunkSizeOf(Setup)
    /\ chunk_overlap = ChunkOverlapOf(Setup)
    /\ doc_chunks = <<>>
    /\ model_weights = Weights(FixedTable)
    /\ log = <<>>
    /\ callers = <<>>
    /\ vector_db = None
    /\ disk = <<>>
    /\ saved_db = None
    /\ search_k = K
    /\ question = <<>>
    /\ docs_retrieved = <<>>
    /\ FreshChain
    /\ error = ""
    /\ pc = "split"

NextFunction == Split

SpecFunction == InitFunction /\ [][NextFunction]_vars

(***************************************************************************)
(* Properties of the splitter.                                             *)
(***************************************************************************)
\* the positions of document d that some chunk represents
Covered(d) ==
    {i \in 1..Len(documents[d].page_content) :
        \E k \in 1..Len(doc_chunks) :
            /\ doc_chunks[k].doc = d
            /\ doc_chunks[k].lo <= i
            /\ i <= doc_chunks[k].hi}

\* C1 as stated: after the split every position of every document is
\* represented in at least one chunk.
C1_AllPositionsCovered ==
    pc = "split_done" =>
        \A d \in 1..Len(documents) :
            Covered(d) = 1..Len(documents[d].page_content)

\* C1 amended: after the split every chunk is the text of the document at
\* its positions, every position that holds a non-whitespace character is
\* represented in at least one chunk, and a position no chunk represents
\* holds whitespace.
C1_NonWhitespaceCovered ==
    pc = "split_done" =>
        /\ \A k \in 1..Len(doc_chunks) :
               LET c == doc_chunks[k]
               IN  /\ 1 <= c.lo /\ c.lo <= c.hi
                   /\ c.hi <= Len(documents[c.doc].page_content)
                   /\ c.page_content = SubSeq(documents[c.doc].page_content, c.lo, c.hi)
        /\ \A d \in 1..Len(documents) :
               \A i \in 1..Len(documents[d].page_content) :
                   documents[d].page_content[i] \notin Whitespace => i \in Covered(d)

\* a document split into several overlapping chunks, with a whitespace
\* position lost between them
C1_Witness ==
    /\ pc = "split_done"
    /\ Len(doc_chunks) >= 3
    /\ chunk_overlap > 0
    /\ \E k \in 1..(Len(doc_chunks) - 1) : doc_chunks[k + 1].lo <= doc_chunks[k].hi
    /\ Covered(1) # 1..Len(documents[1].page_content)

\* C2: after the split no chunk is longer than chunk_size (the Python
\* separator list ends with the empty separator, so every text can be cut
\* down to characters and no unit is indivisible).
C2_ChunkWithinSize ==
    pc = "split_done" =>
        \A k \in 1..Len(doc_chunks) : Len(doc_chunks[k].page_content) <= chunk_size

\* a document longer than chunk_size, split, with a chunk that is full
C2_Witness ==
    /\ pc = "split_done"
    /\ Len(documents[1].page_content) > chunk_size
    /\ chunk_size >= 3
    /\ Len(doc_chunks) >= 2
    /\ \E k \in 1..Len(doc_chunks) : Len(doc_chunks[k].page_content) = chunk_size

(***************************************************************************)
(* Properties of the retriever.                                            *)
(***************************************************************************)
\* the vector the current query is searched with
QueryVector == Embed(vector_db.embeddings, question)

C4_OrderedByRelevance ==
    pc = "retrieved" =>
        \A r \in 1..(Len(docs_retrieved) - 1) :
            docs_retrieved[r].score <= docs_retrieved[r + 1].score

\* the entries the store fetches as candidates: the FetchK nearest
Candidates ==
    {i \in 1..Len(vector_db.index) :
        Cardinality({j \in 1..Len(vector_db.index) :
            \/ L2(vector_db.index[j], QueryVector) < L2(vector_db.index[i], QueryVector)
            \/ /\ L2(vector_db.index[j], QueryVector) = L2(vector_db.index[i], QueryVector)
               /\ j < i}) < FetchK}

\* the marginal relevance of entry i once the results before place r are
\* selected
Marginal(i, r) ==
    LET red == {Dot(vector_db.index[i], vector_db.index[docs_retrieved[j].id]) :
                    j \in 1..(r - 1)}
    IN  Dot(QueryVector, vector_db.index[i])
        - (CHOOSE m \in red : \A x \in red : x <= m)

\* C4 amended: the results are in the order the MMR selection takes them:
\* the first is an entry nearest to the query, and each later one has the
\* greatest marginal relevance among the candidates not selected before it.
C4_MMROrder ==
    pc = "retrieved" =>
        /\ docs_retrieved # <<>> =>
               \A i \in 1..Len(vector_db.index) :
                   docs_retrieved[1].score <= L2(vector_db.index[i], QueryVector)
        /\ \A r \in 2..Len(docs_retrieved) :
               \A i \in Candidates \ {docs_retrieved[j].id : j \in 1..(r - 1)} :
                   Marginal(i, r) <= Marginal(docs_retrieved[r].id, r)
        /\ \A r \in 1..Len(docs_retrieved) :
               /\ docs_retrieved[r].id \in Candidates
               /\ docs_retrieved[r].score
                      = L2(vector_db.index[docs_retrieved[r].id], QueryVector)

\* a retrieval whose later result is more relevant than an earlier one
C4_Witness ==
    /\ pc = "retrieved"
    /\ Len(docs_retrieved) >= 3
    /\ \E r \in 2..(Len(docs_retrieved) - 1) :
           docs_retrieved[r + 1].score < docs_retrieved[r].score

(***************************************************************************)
(* Properties of the store.                                                *)
(***************************************************************************)
\* the queries the round trip is compared on, and the result sizes
FixedQueries == {SampleQuery, ChainQuestion}
ResultSizes == {1, 2, K}

\* C5: a store loaded from the files the last save_local wrote, with the
\* embedding model of the store that was saved, answers every query of the
\* fixed set as the saved store does: same documents, same order, same
\* scores.
C5_RoundTrip ==
    (/\ vector_db # None
     /\ vector_db.origin = "loaded"
     /\ vector_db.embeddings = saved_db.embeddings)
    => \A q \in FixedQueries : \A n \in ResultSizes :
           RetrieverInvoke(vector_db, q, n) = RetrieverInvoke(saved_db, q, n)

\* a store of three entries loaded back with the model it was built with,
\* and searched
C5_Witness ==
    /\ pc = "retrieved"
    /\ vector_db.origin = "loaded"
    /\ vector_db.embeddings = saved_db.embeddings
    /\ Len(vector_db.index) >= 3
    /\ Len(docs_retrieved) >= 3

\* the cells after the store is built or loaded: the query time
QueryTime == {"ready", "retrieved", "llm_ready", "chain_input", "chain_llm", "chain_parse"}

\* C6: no step taken at query time (a retrieval, the formatting, the
\* prompt, a generation that succeeds or fails, the parsing) changes the
\* store in memory or the files on disk.
C6_IndexReadOnly ==
    [][(pc \in QueryTime) => (vector_db' = vector_db /\ disk' = disk)]_vars

\* a query that failed in the generation, after two retrievals, with the
\* store as it was saved
C6_Witness ==
    /\ pc = "failed"
    /\ error = "Timeout"
    /\ InSeq("generate", trace)
    /\ Len(vector_db.index) >= 2
    /\ vector_db = saved_db

\* C7: no search is answered from a store whose vectors were built with
\* another embedding model than the one its queries are embedded with
\* (loading such a store fails instead).
C7_NoSearchOnMismatch ==
    pc = "retrieved" => vector_db.built_with = vector_db.embeddings

(***************************************************************************)
(* Properties of the chain.                                                *)
(***************************************************************************)
EndpointErrors == {"ConnectionError", "Timeout"}

\* C8: the model is asked at most once per query; when the request is
\* refused or times out the run has ended with that error after exactly
\* one request, with no completion and no result.
C8_FailureOnceNoRetry ==
    /\ llm_calls <= 1
    /\ (error \in EndpointErrors /\ InSeq("generate", trace)) =>
           /\ pc = "failed"
           /\ llm_calls = 1
           /\ completion = <<>>
           /\ answer = None

\* a chain whose generation was refused
C8_Witness ==
    /\ pc = "failed"
    /\ error = "ConnectionError"
    /\ trace # <<>>
    /\ trace[Len(trace)] = "generate"
    /\ llm_calls = 1

ChainOrder == <<"retrieve", "format", "prompt", "generate", "parse">>
NotPassthrough(s) == s # "passthrough"
IsPassthrough(s) == s = "passthrough"
IsPrefix(s, u) == Len(s) <= Len(u) /\ s = SubSeq(u, 1, Len(s))

\* C9: the stages that ran for a question are the first stages of
\* retrieval, formatting, prompt, generation, parsing, in this order and
\* each once (the pass-through of the question runs once, before the
\* prompt); a finished chain ran them all; and a stage or a retrieval has
\* run only with a store built or loaded.
C9_LinearOrder ==
    /\ IsPrefix(SelectSeq(trace, NotPassthrough), ChainOrder)
    /\ Len(SelectSeq(trace, IsPassthrough)) <= 1
    /\ InSeq("prompt", trace) =>
           \E i, j \in 1..Len(trace) :
               i < j /\ trace[i] = "passthrough" /\ trace[j] = "prompt"
    /\ pc = "done" => SelectSeq(trace, NotPassthrough) = ChainOrder
    /\ (trace # <<>> \/ pc \in QueryTime) =>
           /\ vector_db # None
           /\ Len(vector_db.index) = Len(doc_chunks) \/ vector_db.origin = "loaded"

\* a finished chain where the question was passed through between the
\* retrieval and the formatting
C9_Witness ==
    /\ pc = "done"
    /\ trace = <<"retrieve", "passthrough", "format", "prompt", "generate", "parse">>

\* the retrieved texts with a blank line between each two
RECURSIVE ExpectedContext(_)
ExpectedContext(texts) ==
    IF texts = <<>> THEN <<>>
    ELSE IF Len(texts) = 1 THEN texts[1]
    ELSE ExpectedContext(SubSeq(texts, 1, Len(texts) - 1))
         \o <<NL, NL>> \o texts[Len(texts)]

\* C10: the prompt step yields the instruction, the question, the context
\* label, the retrieved texts joined by a blank line and the answer label,
\* in this order, and changes nothing but the prompt.
C10_PromptAssembly ==
    [][(pc = "chain_input" /\ pc' = "chain_llm") =>
          /\ prompt_value' =
                 <<Instruction>> \o question \o <<" \nContext: ">>
                 \o ExpectedContext([i \in 1..Len(chain_docs) |->
                                        chain_docs[i].doc.page_content])
                 \o <<" \nAnswer:">>
          /\ UNCHANGED <<nb, runs, splitVars, doc_chunks, model_weights, callers, log, storeVars,
                         search_k, question, docs_retrieved, branch, chain_docs,
                         context, passthrough, retriever_input, completion, answer, llm_calls,
                         error>>]_vars

\* a prompt assembled from three retrieved texts
C10_Witness ==
    /\ pc = "chain_llm"
    /\ Len(chain_docs) >= 3
    /\ Len(prompt_value) = 3 + Len(question) + 4 + 2 * 2

(***************************************************************************)
(* Properties of the prompt with template-like text in the context.        *)
(***************************************************************************)
\* text u occurs in text t as it is
Occurs(u, t) == \E i \in 1..(Len(t) - Len(u) + 1) : SubSeq(t, i, i + Len(u) - 1) = u

\* how many pieces of text t read like a field of the template
FieldCount(t) == Cardinality({i \in 1..Len(t) : t[i] \in Fields})

\* the texts the chain retrieved
RetrievedTexts == [i \in 1..Len(chain_docs) |-> chain_docs[i].doc.page_content]

RECURSIVE SumFieldCount(_)
SumFieldCount(texts) ==
    IF texts = <<>> THEN 0 ELSE FieldCount(Head(texts)) + SumFieldCount(Tail(texts))

\* C11: once the prompt step has run, every retrieved text occurs in the
\* prompt unchanged, the field-like pieces of the retrieved texts are all
\* still in the prompt (none was substituted again), and the step did not
\* raise.
C11_ChunkVerbatim ==
    InSeq("prompt", trace) =>
        /\ \A i \in 1..Len(RetrievedTexts) : Occurs(RetrievedTexts[i], prompt_value)
        /\ FieldCount(prompt_value) = SumFieldCount(RetrievedTexts) + FieldCount(question)
        /\ pc = "chain_llm" => error = ""

\* a prompt assembled from a retrieved text that holds "{question}"
C11_Witness ==
    /\ pc = "chain_llm"
    /\ \E i \in 1..Len(RetrievedTexts) : FieldCount(RetrievedTexts[i]) > 0
    /\ FieldCount(prompt_value) > 0

(***************************************************************************)
(* Properties of the embedding model.                                      *)
(***************************************************************************)
\* the store holds, for each of its documents, the vector its text embeds to
\* now, and the query embeds to a vector of the same dimension
StoredAsEmbedded ==
    (/\ vector_db # None
     /\ vector_db.built_with = vector_db.embeddings)
    => \A i \in 1..Len(vector_db.index) :
           /\ vector_db.index[i]
                  = Embed(vector_db.embeddings, vector_db.docstore[i].page_content)
           /\ Len(vector_db.index[i]) = Len(Embed(vector_db.embeddings, question))

Adjacent(k) == k + 1 <= Len(doc_chunks) /\ doc_chunks[k].doc = doc_chunks[k + 1].doc

\* how many positions of the document chunks k and k + 1 both represent
Shared(k) ==
    IF doc_chunks[k + 1].lo <= doc_chunks[k].hi
    THEN doc_chunks[k].hi - doc_chunks[k + 1].lo + 1
    ELSE 0

\* the last n characters of text t, the first n characters of text t
Suffix(t, n) == SubSeq(t, Len(t) - n + 1, Len(t))
Prefix(t, n) == SubSeq(t, 1, n)

\* C13 as stated: the last chunk_overlap characters of a chunk are the
\* first chunk_overlap characters of the chunk after it.
C13_SharesOverlap ==
    pc = "split_done" =>
        \A k \in 1..Len(doc_chunks) : Adjacent(k) =>
            /\ Len(doc_chunks[k].page_content) >= chunk_overlap
            /\ Len(doc_chunks[k + 1].page_content) >= chunk_overlap
            /\ Suffix(doc_chunks[k].page_content, chunk_overlap)
                   = Prefix(doc_chunks[k + 1].page_content, chunk_overlap)

\* C13 amended: adjacent chunks share at most chunk_overlap characters,
\* possibly none; what they share is the end of the former and the start
\* of the latter, and the latter neither starts nor ends before the former.
C13_SharesAtMostOverlap ==
    pc = "split_done" =>
        \A k \in 1..Len(doc_chunks) : Adjacent(k) =>
            /\ Shared(k) <= chunk_overlap
            /\ Suffix(doc_chunks[k].page_content, Shared(k))
                   = Prefix(doc_chunks[k + 1].page_content, Shared(k))
            /\ doc_chunks[k].lo <= doc_chunks[k + 1].lo
            /\ doc_chunks[k].hi <= doc_chunks[k + 1].hi

\* a document cut into three chunks with an overlap of two allowed: one
\* pair of neighbours shares text, another pair shares less than allowed
C13_Witness ==
    /\ pc = "split_done"
    /\ chunk_overlap >= 2
    /\ Len(doc_chunks) >= 3
    /\ \E k \in 1..(Len(doc_chunks) - 1) : Adjacent(k) /\ Shared(k) > 0
    /\ \E k \in 1..(Len(doc_chunks) - 1) : Adjacent(k) /\ Shared(k) < chunk_overlap

(***************************************************************************)
(* Properties of the split of one function with chunk_size 750 and         *)
(* chunk_overlap 75.                                                       *)
(***************************************************************************)
\* the smallest number of steps of width w that reach n: ceil(n / w)
CeilDiv(n, w) == (n + w - 1) \div w

LineStart(t, i) == i = 1 \/ t[i - 1] = NL
LineEnd(t, i) == i = Len(t) \/ t[i + 1] = NL

Units(t) ==
    {u \in (1..Len(t)) \X (1..Len(t)) :
        /\ u[1] <= u[2]
        /\ \A i \in u[1]..u[2] : t[i] \notin Whitespace
        /\ u[1] = 1 \/ t[u[1] - 1] \in Whitespace
        /\ u[2] = Len(t) \/ t[u[2] + 1] \in Whitespace}

\* the units of the document that are longer than chunk_size
LongUnits == {u \in Units(documents[1].page_content) : PLen(u) > chunk_size}

C16_FailedLoadAbortsBatch ==
    /\ [](loader.failed # 0 =>
             /\ pc = "failed"
             /\ doc_chunks = <<>>
             /\ vector_db = None)
    /\ [][(loader.failed # 0 \/ loader'.failed # 0) =>
             (disk' = disk /\ saved_db' = saved_db)]_vars

\* a second run that failed on its second file, with the files of the
\* first run still on disk
C16_Witness ==
    /\ pc = "failed"
    /\ runs = 2
    /\ loader.failed = 2
    /\ PathOf(LoadPath) \in DOMAIN disk
    /\ ReadIndex(disk[PathOf(LoadPath)].index_faiss) = saved_db.index

\* C17 as stated: when one file raises, the other files of the tree are
\* loaded.
C17_OtherDocumentsLoaded ==
    loader.failed # 0 =>
        /\ error = "IOError"
        /\ Len(documents) = loader.files - 1

\* C17 amended: when one file raises, the error is the outcome of the
\* load and no document is loaded, neither the files read before the
\* failing one nor those after it.
C17_ErrorFatalForAll ==
    loader.failed # 0 =>
        /\ error = "IOError"
        /\ loader.read = loader.failed - 1
        /\ documents = <<>>

\* a tree of three files whose second file raises: one file was read
\* before it, one comes after it
C17_Witness ==
    /\ error = "IOError"
    /\ loader.files = 3
    /\ loader.failed = 2
    /\ loader.read = 1

(***************************************************************************)
(* Properties of the truncation at embedding time.                         *)
(***************************************************************************)
\* the chunks whose token length is over the model's maximum
OverLong == {i \in 1..Len(doc_chunks) : Len(doc_chunks[i].page_content) > MaxSeqLength}

\* C18: when the store is built from chunks of which some are longer than
\* the model's maximum sequence length, every chunk has its vector (the
\* truncation is not fatal) and the run has logged a warning for each
\* chunk that was truncated.
C18_TruncationWarned ==
    (vector_db # None /\ vector_db.origin = "built" /\ OverLong # {}) =>
        /\ Len(vector_db.index) = Len(doc_chunks)
        /\ \A i \in OverLong :
               \E j \in 1..Len(log) : log[j] = [kind |-> "warning", chunk |-> i]

(***************************************************************************)
(* Properties of the nearest-neighbour search of the store.                *)
(***************************************************************************)
\* the sizes the search of the store is looked at with: the result sizes
\* and the number of candidates a retrieval fetches
SearchSizes == ResultSizes \cup {FetchK}

\* the distance of entry i of the store to the current query
Distance(i) == L2(vector_db.index[i], QueryVector)

\* C19: the search of the store for the n nearest entries (the search a
\* retrieval fetches its candidates with) finds exactly min(n, size of the
\* index) entries, all different, in the order of their squared Euclidean
\* distance to the query from closest to farthest, and no entry left out
\* is closer than one that was found; a retrieval of one result returns
\* the closest entry with that distance as its score.
C19_NearestNeighbours ==
    pc = "retrieved" =>
        LET size == Len(vector_db.index)
            dist == SubSeq([i \in 1..size |-> Distance(i)], 1, size)
        IN  /\ \A n \in SearchSizes :
                   LET found == SubSeq(IndexSearch(vector_db.index, QueryVector, n), 1, n)
                       hits == 1..Min2(n, size)
                       left == (1..size) \ {found[r] : r \in hits}
                   IN  /\ \A r \in 1..n : found[r] # -1 <=> r \in hits
                       /\ \A r \in hits : found[r] \in 1..size
                       /\ \A r, t \in hits :
                              r < t => /\ found[r] # found[t]
                                       /\ dist[found[r]] <= dist[found[t]]
                       /\ \A r \in hits : \A i \in left : dist[found[r]] <= dist[i]
            /\ search_k = 1 =>
                   /\ Len(docs_retrieved) = 1
                   /\ docs_retrieved[1].id
                          = IndexSearch(vector_db.index, QueryVector, 1)[1]
                   /\ docs_retrieved[1].score = dist[docs_retrieved[1].id]

\* a search of a store that holds more entries than are asked for, at
\* different distances, whose closest entry is not the first of the index
C19_Witness ==
    /\ pc = "retrieved"
    /\ search_k = 1
    /\ Len(vector_db.index) > K
    /\ docs_retrieved[1].id # 1
    /\ \E i \in 1..Len(vector_db.index) : Distance(i) > docs_retrieved[1].score

(***************************************************************************)
(* Properties of the candidate set of the MMR retrieval.                   *)
(***************************************************************************)
\* the greatest similarity of entry i to a result before place r
RedundancyBefore(i, r) ==
    LET sims == {Dot(vector_db.index[i], vector_db.index[docs_retrieved[j].id]) :
                    j \in 1..(r - 1)}
    IN  CHOOSE m \in sims : \A x \in sims : x <= m

\* C20: a retrieval fetches the FetchK nearest entries (all of them when
\* the index holds fewer) as candidates, more than search_k whenever the
\* index holds more than search_k entries; every result is one of the
\* candidates; and a candidate more relevant than a result but passed over
\* at its place is more similar to the results before that place than the
\* result is.
C20_MMROversampling ==
    pc = "retrieved" =>
        LET size == Len(vector_db.index)
            fetched == Min2(FetchK, size)
            nearest == SubSeq(IndexSearch(vector_db.index, QueryVector, fetched), 1, fetched)
            rel == SubSeq([i \in 1..size |-> Dot(QueryVector, vector_db.index[i])], 1, size)
        IN  /\ \A r \in 1..Len(docs_retrieved) :
                   /\ docs_retrieved[r].fetched = fetched
                   /\ size > search_k => docs_retrieved[r].fetched > search_k
                   /\ docs_retrieved[r].rank \in 1..fetched
                   /\ docs_retrieved[r].id = nearest[docs_retrieved[r].rank]
            /\ \A r \in 2..Len(docs_retrieved) :
                   \A c \in 1..fetched :
                       (/\ \A j \in 1..(r - 1) : docs_retrieved[j].id # nearest[c]
                        /\ rel[nearest[c]] > rel[docs_retrieved[r].id])
                       => RedundancyBefore(nearest[c], r)
                              > RedundancyBefore(docs_retrieved[r].id, r)

\* a retrieval of several results out of more candidates than results,
\* one of the results not among the search_k nearest entries
C20_Witness ==
    /\ pc = "retrieved"
    /\ search_k >= 2
    /\ Len(vector_db.index) > K
    /\ Len(docs_retrieved) = search_k
    /\ \E r \in 1..Len(docs_retrieved) :
           /\ docs_retrieved[r].fetched > search_k
           /\ docs_retrieved[r].rank > search_k

(***************************************************************************)
(* Properties of the sample retrieval.                                     *)
(***************************************************************************)
\* the entries of the store that are closer to the current query than
\* every other entry (one entry or none)
OnlyClosest ==
    LET size == Len(vector_db.index)
        dist == SubSeq([i \in 1..size |-> Distance(i)], 1, size)
    IN  {i \in 1..size : \A j \in 1..size : j # i => dist[i] < dist[j]}

\* C21: when one entry of the store is closer to the query than every
\* other, a retrieval of one result returns that entry with its chunk, and
\* the retrieval of the notebook, whatever its search_k, has the same entry
\* as element 0 of its list.
C21_OnlyClosestIsTop ==
    pc = "retrieved" =>
        \A i \in OnlyClosest :
            LET top == RetrieverInvoke(vector_db, question, 1)
            IN  /\ Len(top) = 1
                /\ top[1].id = i
                /\ top[1].doc = doc_chunks[i]
                /\ docs_retrieved[1].id = i
                /\ docs_retrieved[1].doc = top[1].doc

\* a retrieval of several results from a store of several entries, the
\* closest of which is alone at its distance and not the first of the index
C21_Witness ==
    /\ pc = "retrieved"
    /\ search_k = K
    /\ Len(vector_db.index) >= 4
    /\ Len(docs_retrieved) >= 4
    /\ \E i \in OnlyClosest : i # 1 /\ docs_retrieved[1].id = i

(***************************************************************************)
(* Properties of callers working side by side.                             *)
(***************************************************************************)
\* C22: once the store is built, however the calls of several callers of
\* the retriever interleave, a caller that is done holds the result its
\* query gets on the store as built when it runs alone, and the store is
\* the one that was built.
C22_ConcurrentReadsSafe ==
    pc = "ready" =>
        /\ vector_db = saved_db
        /\ \A c \in DOMAIN callers :
               callers[c].pc = "done" =>
                   callers[c].result = RetrieverInvoke(saved_db, callers[c].query, search_k)

\* one caller is done with a result of several chunks while another is
\* between its search and its reconstruction
C22_Witness ==
    /\ pc = "ready"
    /\ Len(vector_db.index) >= 3
    /\ \E c \in DOMAIN callers : \E d \in DOMAIN callers :
           /\ c # d
           /\ callers[c].pc = "done"
           /\ Len(callers[c].result) >= 2
           /\ callers[d].pc = "reconstruct"
           /\ callers[d].indices # callers[c].indices

(***************************************************************************)
(* Termination and order of the split.                                     *)
(***************************************************************************)
\* the chunks follow the documents, and within a document no chunk starts
\* before a chunk that precedes it in the list
OrderedByPosition ==
    \A j \in 1..Len(doc_chunks) : \A k \in 1..Len(doc_chunks) :
        j < k =>
            \/ doc_chunks[j].doc < doc_chunks[k].doc
            \/ /\ doc_chunks[j].doc = doc_chunks[k].doc
               /\ doc_chunks[j].lo <= doc_chunks[k].lo

\* C23: for every document and every chunk size with a smaller overlap the
\* split comes to its end, and what it leaves is a finite sequence of chunks
\* in the order of their positions in the document.
C23_TerminatesOrdered ==
    /\ <>(pc = "split_done")
    /\ [](pc = "split_done" =>
             /\ Len(doc_chunks) \in Nat
             /\ DOMAIN doc_chunks = 1..Len(doc_chunks)
             /\ OrderedByPosition)

\* a split with an overlap that ended with three chunks or more, each
\* starting after the one before, two of them sharing text
C23_Witness ==
    /\ pc = "split_done"
    /\ chunk_overlap >= 1
    /\ chunk_overlap < chunk_size
    /\ Len(doc_chunks) >= 3
    /\ \A k \in 1..(Len(doc_chunks) - 1) : doc_chunks[k].lo < doc_chunks[k + 1].lo
    /\ \E k \in 1..(Len(doc_chunks) - 1) : Shared(k) > 0

(***************************************************************************)
(* Properties of the store as built.                                       *)
(***************************************************************************)
\* the store in memory is the one FAISS.from_documents returned in this run
BuiltStore == vector_db # None /\ vector_db.origin = "built"

\* C24: a store built by FAISS.from_documents holds as many entries as there
\* are chunks and one vector per entry, entry i carries the text and the
\* metadata of chunk i, and as long as a store is in memory no step changes
\* a vector of it.
C24_OneEntryPerChunk ==
    /\ [](BuiltStore =>
             /\ Len(vector_db.docstore) = Len(doc_chunks)
             /\ Len(vector_db.index) = Len(vector_db.docstore)
             /\ \A i \in 1..Len(doc_chunks) :
                    /\ vector_db.docstore[i].page_content = doc_chunks[i].page_content
                    /\ vector_db.docstore[i].source = doc_chunks[i].source
                    /\ vector_db.docstore[i].doc = doc_chunks[i].doc)
    /\ [][(BuiltStore /\ vector_db' # None) => (vector_db'.index = vector_db.index)]_vars

\* a chain that finished on a store built in this run from chunks of two
\* files or more
C24_Witness ==
    /\ pc = "done"
    /\ BuiltStore
    /\ Len(vector_db.index) >= 2
    /\ \E i \in 1..Len(doc_chunks) : \E j \in 1..Len(doc_chunks) :
           doc_chunks[i].doc # doc_chunks[j].doc

(***************************************************************************)
(* Properties of the diagnostic cells.                                     *)
(***************************************************************************)
\* what the expected-tokens cell has shown in this run
Shown == {log[j].expected_tokens : j \in {i \in 1..Len(log) : log[i].kind = "out"}}

\* C25: the value the diagnostic cell shows for a list of chunks that is
\* not empty is the greatest, over the chunks, of four times the number of
\* whitespace-separated words divided by three and rounded down; the float
\* division followed by max and int gives exactly that; on an empty list
\* the cell raises and shows nothing.
C25_ExpectedTokens ==
    /\ pc = "estimated" =>
           /\ doc_chunks # <<>>
           /\ Shown = {Max({(4 * WordCount(doc_chunks[i].page_content)) \div 3 :
                               i \in 1..Len(doc_chunks)})}
    /\ (pc = "failed" /\ error = "ValueError" /\ doc_chunks = <<>>) => Shown = {}

\* three chunks with different numbers of words, the longest of five words
\* (20/3 is not a whole number): the cell shows 6
C25_Witness ==
    /\ pc = "estimated"
    /\ Len(doc_chunks) = 3
    /\ \E i \in 1..3 : WordCount(doc_chunks[i].page_content) = 5
    /\ \E i \in 1..3 : WordCount(doc_chunks[i].page_content) = 3
    /\ \E i \in 1..3 : Len(doc_chunks[i].page_content) > 2 * 5 + 4
    /\ Shown = {6}

(***************************************************************************)
(* Properties of the input of the chain.                                   *)
(***************************************************************************)
\* the text that stands in the prompt between the instruction and the
\* context label
QuestionSlot(value) ==
    LET label == CHOOSE j \in 2..Len(value) :
                     /\ value[j] = RagPrompt[3]
                     /\ \A i \in 2..(j - 1) : value[i] # RagPrompt[3]
    IN  SubSeq(value, 2, label - 1)

\* C26: in a run of the chain the retriever is invoked with the text the
\* chain was invoked with, the pass-through hands on that same text, and
\* the text in the question slot of the prompt is that text, character for
\* character; the documents retrieved are those of that query.
C26_SameQuestionBothBranches ==
    /\ InSeq("retrieve", trace) =>
           /\ retriever_input = question
           /\ chain_docs = RetrieverInvoke(vector_db, question, search_k)
    /\ InSeq("passthrough", trace) => passthrough = question
    /\ InSeq("prompt", trace) =>
           /\ QuestionSlot(prompt_value) = question
           /\ QuestionSlot(prompt_value) = retriever_input

\* a finished chain whose question was typed with a space before it and a
\* line break after it
C26_Witness ==
    /\ pc = "done"
    /\ question = <<SP>> \o ChainQuestion \o <<NL>>
    /\ Len(chain_docs) >= 2
    /\ QuestionSlot(prompt_value) = <<SP>> \o ChainQuestion \o <<NL>>

(***************************************************************************)
(* Properties of format_docs.                                              *)
(***************************************************************************)
\* where text i starts in the texts joined with a separator of two
\* characters
RECURSIVE StartOf(_, _)
StartOf(texts, i) ==
    IF i = 1 THEN 1 ELSE StartOf(texts, i - 1) + Len(texts[i - 1]) + 2

\* at how many positions text u stands in text t
CountOccurs(u, t) ==
    Cardinality({i \in 1..(Len(t) - Len(u) + 1) : SubSeq(t, i, i + Len(u) - 1) = u})

RECURSIVE SumOccurs(_, _)
SumOccurs(u, texts) ==
    IF texts = <<>> THEN 0 ELSE CountOccurs(u, Head(texts)) + SumOccurs(u, Tail(texts))

\* C27: once format_docs has run on n documents, the context is their
\* texts in the order of the list, each as it is, with "\n\n" after each
\* but the last and nothing before the first or after the last: n - 1
\* separators (the only blank lines of the context besides those inside
\* the texts); the text alone for one document, the empty text for none.
C27_FormatDocsJoins ==
    InSeq("format", trace) =>
        LET texts == RetrievedTexts
            n == Len(texts)
        IN  /\ n = 0 => context = <<>>
            /\ n = 1 => context = texts[1]
            /\ n >= 1 =>
                   /\ Len(context) = StartOf(texts, n) + Len(texts[n]) - 1
                   /\ \A i \in 1..n :
                          SubSeq(context, StartOf(texts, i),
                                 StartOf(texts, i) + Len(texts[i]) - 1) = texts[i]
                   /\ \A i \in 1..(n - 1) :
                          SubSeq(context, StartOf(texts, i) + Len(texts[i]),
                                 StartOf(texts, i + 1) - 1) = <<NL, NL>>
                   /\ CountOccurs(<<NL, NL>>, context)
                          = (n - 1) + SumOccurs(<<NL, NL>>, texts)

\* three different documents formatted, the second with a blank line
\* inside; and the prompt built from them
C27_Witness ==
    /\ InSeq("format", trace)
    /\ InSeq("prompt", trace)
    /\ Len(chain_docs) = 3
    /\ RetrievedTexts[1] = <<"b", NL, "c">>
    /\ RetrievedTexts[2] = <<"d", NL, NL, "e">>
    /\ RetrievedTexts[3] = <<"a">>
    /\ Len(context) = 3 + 2 + 4 + 2 + 1

(***************************************************************************)
(* Properties of the list the retriever returns.                           *)
(***************************************************************************)
\* C28: the list the MMR retriever returns holds no entry of the index
\* twice: the positions of its results in the index are pairwise
\* different, and so are their places among the candidates.
C28_NoEntryTwice ==
    pc = "retrieved" =>
        \A i \in 1..Len(docs_retrieved) : \A j \in 1..Len(docs_retrieved) :
            i # j =>
                /\ docs_retrieved[i].id # docs_retrieved[j].id
                /\ docs_retrieved[i].rank # docs_retrieved[j].rank

\* ten results out of more than ten entries, two of them entries with the
\* same text
C28_Witness ==
    /\ pc = "retrieved"
    /\ search_k = K
    /\ Len(docs_retrieved) = K
    /\ Len(vector_db.index) > K
    /\ \E i \in 1..K : \E j \in 1..K :
           /\ i # j
           /\ docs_retrieved[i].doc.page_content = docs_retrieved[j].doc.page_content

====
